---- MODULE Spec2Model ----
(***************************************************************************)
(* Secret-protection pipeline of the Playwright test scaffold:             *)
(*   CryptoManager.encrypt / decrypt   (src/tests/helpers/validationsUtility)*)
(*   EnvironmentManager.encryptLines   (src/tests/helpers/environmentManager)*)
(*   EnvironmentManager.getKeyValue / storeKeyInEnv      (the same file)    *)
(*   EncryptionManager.generateAndStoreKey / encryptEnvironmentVariables   *)
(*                                      (src/tests/encryption)             *)
(*                                                                         *)
(* Text is a sequence of tokens; a token is a TLA+ string standing for an  *)
(* indivisible run of characters ("a", "=", " ", "{", "salt:", "r0", ...). *)
(* Concatenation of texts is \o; Flat(t) is the text as one atom, used     *)
(* where the code hands a whole string to a hash or a cipher.              *)
(***************************************************************************)
EXTENDS Integers, Sequences, FiniteSets, TLC

\* ------------------------------------------------------------ bounds
\* encrypt calls in one behaviour of the CryptoManager specification
MaxEncrypts == 2
\* longest plaintext handed to encrypt in the CryptoManager specification
MaxValueLen == 1
\* characters in the configuration file read by encryptLines
MaxFileLen == 5
\* encryptEnvVariables calls in one behaviour
MaxRuns == 1
\* characters in the base env file before the first storeKeyInEnv call
MaxBaseLen == 4
\* storeKeyInEnv calls in one behaviour
MaxStores == 1
\* generateAndStoreKey calls in one behaviour
MaxGenerates == 3
\* characters in the environment file two callers encrypt at a time
MaxRaceFileLen == 3
\* calls of getConnectionPool / closeConnectionPool in one behaviour
MaxTasks == 3
\* largest number stored in the data map
MaxNumber == 1
\* initializeEncryption calls on one EnvironmentManager
MaxInits == 2
\* encryptEnvVariables runs over one file, one after the other
MaxReruns == 2
\* characters in each environment file of the env directory
MaxSetupFileLen == 2

\* ------------------------------------------------------------ text helpers
NL == "\n"
EQ == "="
SP == " "

RECURSIVE Flat(_)
Flat(t) == IF t = <<>> THEN "" ELSE Head(t) \o Flat(Tail(t))

RECURSIVE SeqsUpTo(_, _)
SeqsUpTo(S, n) ==
  IF n = 0 THEN {<<>>}
  ELSE LET shorter == SeqsUpTo(S, n - 1)
       IN shorter \cup {Append(t, c) : t \in {u \in shorter : Len(u) = n - 1}, c \in S}

\* position of the first occurrence of token c in t, 0 when there is none
RECURSIVE IndexOf(_, _)
IndexOf(t, c) ==
  IF t = <<>> THEN 0
  ELSE IF Head(t) = c THEN 1
  ELSE LET r == IndexOf(Tail(t), c) IN IF r = 0 THEN 0 ELSE r + 1

\* String.prototype.split(sep): the pieces between the occurrences of sep
RECURSIVE split(_, _)
split(t, sep) ==
  LET i == IndexOf(t, sep)
  IN IF i = 0 THEN <<t>>
     ELSE <<SubSeq(t, 1, i - 1)>> \o split(SubSeq(t, i + 1, Len(t)), sep)

\* String.prototype.trim(): whitespace removed at both ends
RECURSIVE trimStart(_)
trimStart(t) == IF t # <<>> /\ Head(t) = SP THEN trimStart(Tail(t)) ELSE t

RECURSIVE trimEnd(_)
trimEnd(t) ==
  IF t # <<>> /\ t[Len(t)] = SP THEN trimEnd(SubSeq(t, 1, Len(t) - 1)) ELSE t

trim(t) == trimEnd(trimStart(t))

\* ------------------------------------------------------------ CryptoJS
\* CryptoJS.enc.Base64: stringify pads the text with "=", parse stops at the
\* first padding character.
Base64Stringify(bytes) == bytes \o <<EQ, EQ>>

Base64Parse(text) ==
  LET i == IndexOf(text, EQ) IN IF i = 0 THEN text ELSE SubSeq(text, 1, i - 1)

\* What a cipher yields for a wrong key, a wrong iv or a forged ciphertext.
Garbage == <<"\\garbage">>

\* draws of the random source one encrypt call takes
DrawsPerEncrypt == 2

\* what the n-th draw of the random source reads in base64
RandomToken(n) == "r" \o ToString(n)

\* the draws that runs over one file can take
RandomTokens == {RandomToken(n) : n \in 0..(DrawsPerEncrypt * MaxReruns * MaxFileLen)}

\* Tokens a plaintext can be made of: the characters of a value and, where a
\* serialized envelope is encrypted again, the characters it begins with.
PlainTokens == {"a", SP, EQ, "{", "salt:"} \cup RandomTokens

CipherToken(c) == "<" \o c \o ">"

PlainToken(k) ==
  IF \E c \in PlainTokens : CipherToken(c) = k
  THEN CHOOSE c \in PlainTokens : CipherToken(c) = k
  ELSE "\\garbage"

CipherHead(key, ivBytes) == "C(" \o key \o "|" \o Flat(ivBytes) \o ")"

\* CryptoJS.AES.encrypt(value, key, {iv, CBC, Pkcs7}).ciphertext: an ideal
\* cipher, injective in (value, key, iv); every token depends on key and iv
\* through the head, and no plaintext token shows.
AESencrypt(value, key, ivBytes) ==
  <<CipherHead(key, ivBytes)>> \o [i \in 1..Len(value) |-> CipherToken(value[i])]

\* CryptoJS.AES.decrypt({ciphertext}, key, {iv, CBC, Pkcs7}).toString(Utf8)
AESdecrypt(cipherBytes, key, ivBytes) ==
  IF /\ cipherBytes # <<>>
     /\ Head(cipherBytes) = CipherHead(key, ivBytes)
     /\ \A i \in 2..Len(cipherBytes) : PlainToken(cipherBytes[i]) # "\\garbage"
  THEN [i \in 1..(Len(cipherBytes) - 1) |-> PlainToken(cipherBytes[i + 1])]
  ELSE Garbage

\* ------------------------------------------------------------ JSON
FieldNames == {"salt:", "iv:", "cipherText:", "mac:"}

\* JSON.stringify of {salt, iv, cipherText, mac}
JSONstringify(e) ==
  <<"{", "salt:">> \o e.salt \o <<",", "iv:">> \o e.iv
    \o <<",", "cipherText:">> \o e.cipherText \o <<",", "mac:">> \o e.mac \o <<"}">>

\* JSON.parse: [ok, has, val]; ok is FALSE where JSON.parse throws, has is
\* the set of properties the parsed object carries
JSONparse(text) ==
  LET n == Len(text)
      body == SubSeq(text, 2, n - 1)
      parts == IF body = <<>> THEN <<>> ELSE split(body, ",")
      wellFormed ==
        /\ n >= 2
        /\ text[1] = "{"
        /\ text[n] = "}"
        /\ \A i \in 1..Len(parts) : parts[i] # <<>> /\ Head(parts[i]) \in FieldNames
      has == {Head(parts[i]) : i \in 1..Len(parts)}
      last(f) == CHOOSE i \in 1..Len(parts) :
                   /\ Head(parts[i]) = f
                   /\ \A j \in 1..Len(parts) : Head(parts[j]) = f => j <= i
  IN IF wellFormed
     THEN [ok |-> TRUE, has |-> has,
           val |-> [f \in FieldNames |-> IF f \in has THEN Tail(parts[last(f)]) ELSE <<>>]]
     ELSE [ok |-> FALSE, has |-> {}, val |-> [f \in FieldNames |-> <<>>]]

\* ------------------------------------------------------------ CryptoUtil
\* tests/utils/cryptoUtil.ts is not among the sources; these follow the
\* specification (sections 3, 4.2 and 4.3).

\* The n-th draw of the secure random source; draws never repeat.
RandomBytes(n) == <<RandomToken(n)>>

generateSalt(n) == Base64Stringify(RandomBytes(n))

generateIvAsBase64(n) == Base64Stringify(RandomBytes(n))

\* deterministic, injective in (secret, salt)
deriveKey(secretKey, salt) == "K(" \o secretKey \o "|" \o Flat(salt) \o ")"

\* HMAC under key of salt || iv || cipherText
generateMac(salt, iv, cipherText, key) ==
  <<"M(" \o key \o "|" \o Flat(salt \o iv \o cipherText) \o ")">>

\* throws unless the parsed object carries all four properties
validateParsedData(p) == FieldNames \subseteq p.has

\* The base64 alphabet: the character of sextet i is Base64Alphabet[i + 1].
Base64Alphabet ==
  <<"A", "B", "C", "D", "E", "F", "G", "H", "I", "J", "K", "L", "M",
    "N", "O", "P", "Q", "R", "S", "T", "U", "V", "W", "X", "Y", "Z",
    "a", "b", "c", "d", "e", "f", "g", "h", "i", "j", "k", "l", "m",
    "n", "o", "p", "q", "r", "s", "t", "u", "v", "w", "x", "y", "z",
    "0", "1", "2", "3", "4", "5", "6", "7", "8", "9", "+", "/">>

Base64Char(sextet) == Base64Alphabet[sextet + 1]

Base64Sextet(c) == CHOOSE i \in 0..63 : Base64Alphabet[i + 1] = c

\* base64 of a sequence of bytes (0..255): three bytes give four characters,
\* a last group of one or two bytes is padded with "="
RECURSIVE toBase64(_)
toBase64(bytes) ==
  IF bytes = <<>> THEN <<>>
  ELSE IF Len(bytes) = 1
  THEN <<Base64Char(bytes[1] \div 4), Base64Char((bytes[1] % 4) * 16), EQ, EQ>>
  ELSE IF Len(bytes) = 2
  THEN <<Base64Char(bytes[1] \div 4),
         Base64Char((bytes[1] % 4) * 16 + bytes[2] \div 16),
         Base64Char((bytes[2] % 16) * 4), EQ>>
  ELSE <<Base64Char(bytes[1] \div 4),
         Base64Char((bytes[1] % 4) * 16 + bytes[2] \div 16),
         Base64Char((bytes[2] % 16) * 4 + bytes[3] \div 64),
         Base64Char(bytes[3] % 64)>>
         \o toBase64(SubSeq(bytes, 4, Len(bytes)))

\* the bytes a base64 text of whole groups of four characters decodes to
RECURSIVE fromBase64(_)
fromBase64(text) ==
  IF Len(text) < 4 THEN <<>>
  ELSE LET a == Base64Sextet(text[1])
           b == Base64Sextet(text[2])
           c == IF text[3] = EQ THEN 0 ELSE Base64Sextet(text[3])
           d == IF text[4] = EQ THEN 0 ELSE Base64Sextet(text[4])
           group == <<a * 4 + b \div 16, (b % 16) * 16 + c \div 4, (c % 4) * 64 + d>>
       IN IF text[3] = EQ THEN SubSeq(group, 1, 1)
          ELSE IF text[4] = EQ THEN SubSeq(group, 1, 2)
          ELSE group \o fromBase64(SubSeq(text, 5, Len(text)))

\* size bytes of the secure random source; seed stands for what it delivers
randomBytes(size, seed) == [i \in 1..size |-> (seed * 37 + i * 11) % 256]

\* generateKey(lengthBits = 256): the default length
DefaultKeyLength == 256

\* the length asked for is not looked at
generateKeyOfDefaultLength(lengthBits, seed) ==
  toBase64(randomBytes(DefaultKeyLength \div 8, seed))

\* CryptoUtil.generateKey(lengthBits): base64 of lengthBits / 8 random bytes
generateKey(lengthBits, seed) == toBase64(randomBytes(lengthBits \div 8, seed))

\* ------------------------------------------------------------ CryptoManager
\* CryptoManager.encrypt(value, secretKey); n is the state of the random
\* source, of which the call takes two draws (salt, then iv).
encryptKeyFromIv(value, secretKey, n) ==
  LET salt == generateSalt(n)
      iv == generateIvAsBase64(n + 1)
      key == deriveKey(secretKey, iv)
      cipherText == Base64Stringify(AESencrypt(value, key, Base64Parse(iv)))
      mac == generateMac(salt, iv, cipherText, key)
  IN [salt |-> salt, iv |-> iv, cipherText |-> cipherText, mac |-> mac]

encryptStaticSaltIv(value, secretKey, n) ==
  LET salt == generateSalt(0)
      iv == generateIvAsBase64(1)
      key == deriveKey(secretKey, salt)
      cipherText == Base64Stringify(AESencrypt(value, key, Base64Parse(iv)))
      mac == generateMac(salt, iv, cipherText, key)
  IN [salt |-> salt, iv |-> iv, cipherText |-> cipherText, mac |-> mac]

encrypt(value, secretKey, n) ==
  LET salt == generateSalt(n)
      iv == generateIvAsBase64(n + 1)
      key == deriveKey(secretKey, salt)
      cipherText == Base64Stringify(AESencrypt(value, key, Base64Parse(iv)))
      mac == generateMac(salt, iv, cipherText, key)
  IN [salt |-> salt, iv |-> iv, cipherText |-> cipherText, mac |-> mac]

\* The outcome of a decrypt call: the value returned, or the error thrown,
\* with the steps the call went through, in order.
Returned(value, trace) ==
  [ok |-> TRUE, error |-> "", value |-> value, trace |-> trace]

Thrown(error, trace) ==
  [ok |-> FALSE, error |-> error, value |-> <<>>, trace |-> trace]

\* if (!encryptedData)
isEmptyInputNever(encryptedData) == FALSE

isEmptyInput(encryptedData) == encryptedData = <<>>

\* if (computedMac !== mac) is not taken
macMatchesAlways(computedMac, mac) == TRUE

macMatches(computedMac, mac) == computedMac = mac

\* if (!decrypted) is not taken
isEmptyResultNever(decrypted) == FALSE

\* if (!decrypted)
isEmptyResult(decrypted) == decrypted = <<>>

\* the second try block of decrypt, on the parsed envelope
decryptThenVerify(parsedData, secretKey) ==
  LET salt == parsedData.val["salt:"]
      iv == parsedData.val["iv:"]
      cipherText == parsedData.val["cipherText:"]
      mac == parsedData.val["mac:"]
      key == deriveKey(secretKey, salt)
      decrypted == AESdecrypt(Base64Parse(cipherText), key, Base64Parse(iv))
      computedMac == generateMac(salt, iv, cipherText, key)
      steps == <<"JSON.parse", "validateParsedData", "deriveKey", "AES.decrypt", "generateMac">>
  IN IF ~macMatches(computedMac, mac) THEN Thrown("MacVerificationFailed", steps)
     ELSE IF decrypted = Garbage THEN Thrown("DecryptionFailed", steps)
     ELSE IF isEmptyResult(decrypted) THEN Thrown("EmptyPlaintext", steps)
     ELSE Returned(decrypted, steps)

decryptParsed(parsedData, secretKey) ==
  LET salt == parsedData.val["salt:"]
      iv == parsedData.val["iv:"]
      cipherText == parsedData.val["cipherText:"]
      mac == parsedData.val["mac:"]
      decodedIv == Base64Parse(iv)
      decodedCipherText == Base64Parse(cipherText)
      key == deriveKey(secretKey, salt)
      computedMac == generateMac(salt, iv, cipherText, key)
      verified == <<"JSON.parse", "validateParsedData", "deriveKey", "generateMac">>
      decrypted == AESdecrypt(decodedCipherText, key, decodedIv)
  IN IF ~macMatches(computedMac, mac) THEN Thrown("MacVerificationFailed", verified)
     ELSE IF decrypted = Garbage
       THEN Thrown("DecryptionFailed", Append(verified, "AES.decrypt"))
     ELSE IF isEmptyResult(decrypted)
       THEN Thrown("EmptyPlaintext", Append(verified, "AES.decrypt"))
     ELSE Returned(decrypted, Append(verified, "AES.decrypt"))

\* a call that failed is made a second time before the error is thrown
decryptRetrying(encryptedData, secretKey) ==
  LET attempt ==
        IF isEmptyInput(encryptedData) THEN Thrown("EmptyInput", <<>>)
        ELSE LET parsedData == JSONparse(encryptedData)
             IN IF ~parsedData.ok THEN Thrown("InvalidEnvelopeFormat", <<"JSON.parse">>)
                ELSE IF ~validateParsedData(parsedData)
                  THEN Thrown("InvalidEnvelopeFormat", <<"JSON.parse", "validateParsedData">>)
                ELSE decryptParsed(parsedData, secretKey)
  IN IF attempt.ok THEN attempt ELSE [attempt EXCEPT !.trace = @ \o @]

\* CryptoManager.decrypt(encryptedData, secretKey)
decrypt(encryptedData, secretKey) ==
  IF isEmptyInput(encryptedData) THEN Thrown("EmptyInput", <<>>)
  ELSE LET parsedData == JSONparse(encryptedData)
       IN IF ~parsedData.ok THEN Thrown("InvalidEnvelopeFormat", <<"JSON.parse">>)
          ELSE IF ~validateParsedData(parsedData)
            THEN Thrown("InvalidEnvelopeFormat", <<"JSON.parse", "validateParsedData">>)
          ELSE decryptParsed(parsedData, secretKey)

\* ------------------------------------------------------------ EnvironmentManager
\* fs.readFileSync(envFilePath).split("\n")
readEnvFileAsLines(content) == split(content, NL)

\* every line is ended by the separator
RECURSIVE joinEndingEach(_, _)
joinEndingEach(lines, sep) ==
  IF lines = <<>> THEN <<>>
  ELSE lines[1] \o <<sep>> \o joinEndingEach(Tail(lines), sep)

\* lines.join("\n")
RECURSIVE join(_, _)
join(lines, sep) ==
  IF lines = <<>> THEN <<>>
  ELSE IF Len(lines) = 1 THEN lines[1]
  ELSE lines[1] \o <<sep>> \o join(Tail(lines), sep)

\* the message names the index itself
handleInvalidFormatErrorFromZero(index, line) == [lineNumber |-> index, line |-> line]

\* ErrorHandler.handleInvalidFormatError(index, line), index counted from 0:
\* the message names line index + 1
handleInvalidFormatError(index, line) == [lineNumber |-> index + 1, line |-> line]

isBlank(line) == trim(line) = <<>>

\* const [key, value] = trimmedLine.split("=")
keyOf(trimmedLine) == split(trimmedLine, EQ)[1]

\* the value is everything after the first "="
valueOfRest(trimmedLine) ==
  SubSeq(trimmedLine, IndexOf(trimmedLine, EQ) + 1, Len(trimmedLine))

valueOf(trimmedLine) == split(trimmedLine, EQ)[2]

\* if (value)
hasValueAlways(value) == TRUE

hasValue(value) == value # <<>>

\* what the loop pushes for a blank line
blankLineOutput(line) == <<>>

\* The for loop of encryptLines from index (counted from 0, as in the code)
\* on; acc holds encryptedLines, errors, the encrypt calls made and the state
\* of the random source.
RECURSIVE encryptLoop(_, _, _, _)
encryptLoop(lines, key, index, acc) ==
  IF index >= Len(lines) THEN acc
  ELSE
    LET line == lines[index + 1]
        trimmedLine == trim(line)
    IN IF trimmedLine = <<>>
       THEN encryptLoop(lines, key, index + 1,
                        [acc EXCEPT !.out = Append(@, blankLineOutput(line))])
       ELSE IF IndexOf(trimmedLine, EQ) = 0
       THEN encryptLoop(lines, key, index + 1,
                        [acc EXCEPT !.errors = Append(@, handleInvalidFormatError(index, line))])
       ELSE IF hasValue(valueOf(trimmedLine))
       THEN LET encryptionResult == encrypt(trim(valueOf(trimmedLine)), key, acc.rng)
                encryptedValue == JSONstringify(encryptionResult)
            IN encryptLoop(lines, key, index + 1,
                 [acc EXCEPT
                    !.out = Append(@, keyOf(trimmedLine) \o <<EQ>> \o encryptedValue),
                    !.calls = Append(@, [index |-> index,
                                         value |-> trim(valueOf(trimmedLine)),
                                         env |-> encryptionResult]),
                    !.rng = @ + DrawsPerEncrypt])
       ELSE encryptLoop(lines, key, index + 1, [acc EXCEPT !.out = Append(@, line)])

\* the loop leaves blank lines out of encryptedLines
encryptLinesSkippingBlank(lines, key, n) ==
  IF \A i \in 1..Len(lines) : isBlank(lines[i])
  THEN [threw |-> TRUE, error |-> "EmptyFile", out |-> <<>>, errors |-> <<>>,
        calls |-> <<>>, rng |-> n]
  ELSE [threw |-> FALSE, error |-> ""]
         @@ encryptLoop(SelectSeq(lines, LAMBDA l : ~isBlank(l)), key, 0,
                        [out |-> <<>>, errors |-> <<>>, calls |-> <<>>, rng |-> n])

\* the check for a file of blank lines is missing
encryptLinesWithoutEmptyCheck(lines, key, n) ==
  [threw |-> FALSE, error |-> ""]
    @@ encryptLoop(lines, key, 0,
                   [out |-> <<>>, errors |-> <<>>, calls |-> <<>>, rng |-> n])

\* EnvironmentManager.encryptLines(lines), with this.secretKey = key and the
\* random source in state n
encryptLines(lines, key, n) ==
  IF \A i \in 1..Len(lines) : isBlank(lines[i])
  THEN [threw |-> TRUE, error |-> "EmptyFile", out |-> <<>>, errors |-> <<>>,
        calls |-> <<>>, rng |-> n]
  ELSE [threw |-> FALSE, error |-> ""]
         @@ encryptLoop(lines, key, 0,
                        [out |-> <<>>, errors |-> <<>>, calls |-> <<>>, rng |-> n])

\* EnvironmentManager.logEncryptionSuccess(originalCount, encryptedCount):
\* the count named in "Successfully encrypted <count> variable(s)"
logEncryptionSuccess(originalCount, encryptedCount) == encryptedCount

\* what encryptEnvVariables leaves in the file: the lines written by
\* writeEnvFileLines after encryptLines returned, the content as it was when
\* encryptLines threw; partial is what the loop had pushed by then
\* (variant: the lines are written as far as the loop got)
contentAfterRunPartial(content, r, partial) ==
  IF r.threw THEN (IF partial = <<>> THEN content ELSE join(partial, NL))
  ELSE join(r.out, NL)

contentAfterRun(content, r, partial) ==
  IF r.threw THEN content ELSE join(r.out, NL)

\* encryptLines(lines) in a run where the failAt-th call of
\* CryptoManager.encrypt throws (0: none does): the error leaves the loop
\* and is rethrown; partial holds the lines pushed before it
encryptLinesFailing(lines, key, n, failAt) ==
  LET r == encryptLines(lines, key, n)
  IN IF r.threw \/ failAt \notin 1..Len(r.calls) THEN r @@ [partial |-> <<>>]
     ELSE LET index == r.calls[failAt].index
              acc == encryptLoop(SubSeq(lines, 1, index), key, 0,
                                 [out |-> <<>>, errors |-> <<>>, calls |-> <<>>, rng |-> n])
          IN [threw |-> TRUE, error |-> "EncryptFailed", out |-> <<>>,
              errors |-> acc.errors, calls |-> acc.calls, rng |-> acc.rng,
              partial |-> acc.out]

\* ------------------------------------------------------------ base env file
\* What a function of type string | undefined returns.
Undefined == [defined |-> FALSE, value |-> <<>>]

Defined(value) == [defined |-> TRUE, value |-> value]

\* the text pat stands in t from position p on
occursAt(t, p, pat) ==
  /\ p + Len(pat) - 1 <= Len(t)
  /\ SubSeq(t, p, p + Len(pat) - 1) = pat

\* "^" under the flag "m": the start of the text and every position after a
\* line break
isLineStart(t, p) == p = 1 \/ (p > 1 /\ p <= Len(t) + 1 /\ t[p - 1] = NL)

\* where the regular expression ^keyName= first matches in t, 0 when it does
\* not match
matchStart(t, keyName) ==
  LET hits == {p \in 1..Len(t) : isLineStart(t, p) /\ occursAt(t, p, keyName \o <<EQ>>)}
  IN IF hits = {} THEN 0 ELSE CHOOSE p \in hits : \A q \in hits : p <= q

\* where ".*" stops: the last position before the next line break
matchEnd(t, p) ==
  LET rest == SubSeq(t, p, Len(t))
      i == IndexOf(rest, NL)
  IN IF i = 0 THEN Len(t) ELSE p + i - 2

\* EnvironmentManager.getKeyValue(keyName) on a base env file holding envConfig
getKeyValue(envConfig, keyName) ==
  LET p == matchStart(envConfig, keyName)
  IN IF p = 0 THEN Undefined
     ELSE Defined(SubSeq(envConfig, p + Len(keyName) + 1, matchEnd(envConfig, p)))

\* the matched line is not replaced: the pair is appended in every case
storeKeyAppending(envConfig, keyName, keyValue) ==
  envConfig \o keyName \o <<EQ>> \o keyValue \o <<NL>>

\* EnvironmentManager.storeKeyInEnv(keyName, keyValue): the content written
\* to a base env file that held envConfig
storeKeyInEnv(envConfig, keyName, keyValue) ==
  LET p == matchStart(envConfig, keyName)
      pair == keyName \o <<EQ>> \o keyValue
  IN IF p # 0
     THEN SubSeq(envConfig, 1, p - 1) \o pair
            \o SubSeq(envConfig, matchEnd(envConfig, p) + 1, Len(envConfig))
     ELSE envConfig \o pair \o <<NL>>

\* EnvironmentManager.generateSecretKey(): string | undefined. outcome is
\* what CryptoUtil.generateKey() did: returned a key, returned nothing, threw.
generateSecretKey(outcome, seed) ==
  CASE outcome = "key" -> [threw |-> FALSE, returned |-> Defined(generateKey(DefaultKeyLength, seed))]
    [] outcome = "undefined" -> [threw |-> FALSE, returned |-> Undefined]
    [] outcome = "throws" -> [threw |-> TRUE, returned |-> Undefined]

\* `${keyName}=${keyValue}` for a keyValue of type string | undefined
templateText(v) == IF v.defined THEN v.value ELSE <<"undefined">>

\* if (secretKey === undefined) is not taken
isUndefinedKeyNever(secretKey) == FALSE

\* if (secretKey === undefined)
isUndefinedKey(secretKey) == ~secretKey.defined

\* EncryptionManager.generateAndStoreKey(keyName) on a base env file holding
\* envConfig: whether it threw, what it returned, the file afterwards
generateAndStoreKey(envConfig, keyName, outcome, seed) ==
  LET secret == generateSecretKey(outcome, seed)
  IN IF secret.threw \/ isUndefinedKey(secret.returned)
     THEN [threw |-> TRUE, returned |-> Undefined, stored |-> FALSE, file |-> envConfig]
     ELSE [threw |-> FALSE, returned |-> secret.returned, stored |-> TRUE,
           file |-> storeKeyInEnv(envConfig, <<keyName>>, templateText(secret.returned))]

\* ------------------------------------------------------------ state
VARIABLES
  rng,          \* draws taken from the secure random source so far
  envelopes,    \* the encrypt calls made: <<[value, secret, env]>>, in order
  lastDecrypt,  \* the last decrypt call: its arguments and its outcome
  envFile,      \* content of the environment file, lines separated by "\n"
  secretKey,    \* EnvironmentManager.secretKey
  runs,         \* encryptEnvVariables calls made
  lastEncrypt,  \* the last encryptLines call: its argument and its outcome
  envFilePath,  \* EnvironmentManager.envFilePath
  lastInvocation, \* the last encryptEnvironmentVariables call and its outcome
  successLog,   \* the counts named in the success messages logged, in order
  baseFile,     \* content of the base env file envs/.env
  stores,       \* storeKeyInEnv calls made
  generates,    \* generateAndStoreKey calls made
  lastStore,    \* the last storeKeyInEnv call: its arguments, the file before it
  issued,       \* per key name, the key generateAndStoreKey returned last
  lastGenerate, \* the last generateAndStoreKey call and its outcome
  lastKey,      \* the last generateKey call: its argument and the key returned
  callers,      \* the processes working on the base env file, each at its step
  dataMap,      \* the Map<string, T> handed to MapDataUtil: testId -> object
  lastData,     \* the last setData / getData call and its outcome
  pool,         \* DatabaseConnection.pool: 0 for null, else the pool's number
  globalPool,   \* the connection pool the mssql module holds: 0 for none
  poolState,    \* per pool established so far: open, closing or closed
  tasks,        \* the calls of getConnectionPool / closeConnectionPool under way
  handedOut,    \* what getConnectionPool returned: <<[task, pool, state]>>
  envFiles,     \* the environment files of the env directory, by path
  initPairs,    \* the (path, secret) pairs set by initializeEncryption calls
                \* that returned
  lastWrite,    \* the last file write of encryptEnvVariables: path and secret
  inits         \* initializeEncryption calls made

codecVars ==
  <<envFile, secretKey, runs, lastEncrypt, envFilePath, lastInvocation, successLog>>

keyVars == <<baseFile, stores, generates, lastStore, issued, lastGenerate, lastKey, callers>>

mapVars == <<dataMap, lastData>>

dbVars == <<pool, globalPool, poolState, tasks, handedOut>>

initVars == <<envFiles, initPairs, lastWrite, inits>>

utilVars == <<mapVars, dbVars, initVars>>

vars == <<rng, envelopes, lastDecrypt, codecVars, keyVars, utilVars>>

Secrets == {"k1", "k2"}

\* plaintexts handed to encrypt
Values == SeqsUpTo({"a"}, MaxValueLen)

NoDecrypt ==
  [called |-> FALSE, text |-> <<>>, secret |-> "", res |-> Thrown("", <<>>)]

NoEncrypt ==
  [called |-> FALSE, lines |-> <<>>, threw |-> FALSE, error |-> "",
   out |-> <<>>, errors |-> <<>>, calls |-> <<>>, rng |-> 0]

NoInvocation == [called |-> FALSE, secretKey |-> "", threw |-> FALSE]

\* Environments.SECRET_KEY_DEV, SECRET_KEY_UAT: the names keys are stored under
KeyNames == {"SECRET_KEY_DEV", "SECRET_KEY_UAT"}

NoStore == [called |-> FALSE, keyName |-> "", keyValue |-> <<>>, before |-> <<>>]

NoGenerate == [called |-> FALSE, keyName |-> "", threw |-> FALSE, returned |-> Undefined]

NoKey == [called |-> FALSE, lengthBits |-> 0, key |-> <<>>]

CallerIds == {1, 2}

\* a caller that has not started: pc is its step (idle, read, done), op the
\* cycle it runs, envConfig what it read, seen the callers that had written
\* when it read, wrote what it wrote, order its place among the writers
Idle ==
  [pc |-> "idle", op |-> "", keyName |-> "", keyValue |-> <<>>, secret |-> "",
   envConfig |-> <<>>, seen |-> {}, wrote |-> <<>>, order |-> 0, threw |-> FALSE]

\* test ids and keys of the data map; "" is the empty string
TestIds == {"", "t1", "t2"}

DataKeys == {"", "k1", "k2"}

\* a value of type string | number, or undefined
JsString(text) == [type |-> "string", str |-> text, num |-> 0]

JsNumber(n) == [type |-> "number", str |-> "", num |-> n]

JsUndefined == [type |-> "undefined", str |-> "", num |-> 0]

\* {} as T: an object without properties
EmptyObject == [k \in DataKeys |-> JsUndefined]

NoData ==
  [called |-> FALSE, op |-> "", testId |-> "", key |-> "", value |-> JsUndefined,
   threw |-> FALSE, returned |-> JsUndefined]

\* the calls on the database connection, each a task of the event loop
TaskIds == 1..MaxTasks

NoTask == [op |-> "", pc |-> "idle", value |-> 0]

\* the environments of the env directory
Envs == {".env.dev", ".env.uat"}

\* path.resolve(envDirPath, env)
resolve(envDirPath, env) == envDirPath \o "/" \o env

EnvDirPath == "envs"

EnvPaths == {resolve(EnvDirPath, env) : env \in Envs}

NoWrite == [done |-> FALSE, path |-> "", secret |-> ""]

\* an empty Map, no call made on it
MapIdle ==
  /\ dataMap = [has |-> {}, obj |-> [t \in TestIds |-> EmptyObject]]
  /\ lastData = NoData

\* private static pool = null, no call under way
DbIdle ==
  /\ pool = 0
  /\ globalPool = 0
  /\ poolState = <<>>
  /\ tasks = [t \in TaskIds |-> NoTask]
  /\ handedOut = <<>>

\* initializeEncryption not yet called, no file written
SetupIdle ==
  /\ initPairs = {}
  /\ lastWrite = NoWrite
  /\ inits = 0

UtilIdle ==
  /\ MapIdle
  /\ DbIdle
  /\ SetupIdle
  /\ envFiles = [p \in EnvPaths |-> <<>>]

\* no key was generated or stored, no caller is at work
KeysIdle ==
  /\ stores = 0
  /\ generates = 0
  /\ lastStore = NoStore
  /\ issued = [k \in KeyNames |-> Undefined]
  /\ lastGenerate = NoGenerate
  /\ lastKey = NoKey
  /\ callers = [c \in CallerIds |-> Idle]

field(e, f) ==
  CASE f = "salt:" -> e.salt
    [] f = "iv:" -> e.iv
    [] f = "cipherText:" -> e.cipherText
    [] f = "mac:" -> e.mac

withField(e, f, v) ==
  CASE f = "salt:" -> [e EXCEPT !.salt = v]
    [] f = "iv:" -> [e EXCEPT !.iv = v]
    [] f = "cipherText:" -> [e EXCEPT !.cipherText = v]
    [] f = "mac:" -> [e EXCEPT !.mac = v]

\* the properties of an envelope in the order JSON.stringify writes them
FieldOrder == <<"salt:", "iv:", "cipherText:", "mac:">>

\* the text of envelope e with property f left out
RECURSIVE joinFields(_, _)
joinFields(e, names) ==
  IF names = <<>> THEN <<>>
  ELSE <<Head(names)>> \o field(e, Head(names))
         \o (IF Len(names) > 1 THEN <<",">> ELSE <<>>)
         \o joinFields(e, Tail(names))

textWithout(e, f) ==
  <<"{">> \o joinFields(e, SelectSeq(FieldOrder, LAMBDA g : g # f)) \o <<"}">>

\* values an attacker writes over property f of envelope i: foreign bytes,
\* the same bytes with the padding cut or a byte added, a property of any
\* envelope produced so far
TamperValues(i, f) ==
  LET e == envelopes[i].env
  IN ({<<"x">>, <<"x", EQ, EQ>>, Base64Parse(field(e, f)),
       field(e, f) \o <<"x">>, <<"x">> \o field(e, f)}
      \cup {field(envelopes[j].env, g) : j \in 1..Len(envelopes), g \in FieldNames})
     \ {field(e, f), <<>>}

\* texts that are no envelope
MalformedTexts ==
  {<<"x">>, <<SP>>, <<"{">>, <<"{", "}">>, <<"{", "x", "}">>}
    \cup {SubSeq(JSONstringify(envelopes[i].env), 1, 6) : i \in 1..Len(envelopes)}
    \cup {textWithout(envelopes[i].env, f) : i \in 1..Len(envelopes), f \in FieldNames}

Init ==
  /\ rng = 0
  /\ envelopes = <<>>
  /\ lastDecrypt = NoDecrypt
  /\ envFile = <<>>
  /\ secretKey = ""
  /\ runs = 0
  /\ lastEncrypt = NoEncrypt
  /\ envFilePath = ""
  /\ lastInvocation = NoInvocation
  /\ successLog = <<>>
  /\ baseFile = <<>>
  /\ KeysIdle
  /\ UtilIdle

\* a caller encrypts value v under secret s
Encrypt ==
  /\ Len(envelopes) < MaxEncrypts
  /\ \E v \in Values, s \in Secrets :
       envelopes' = Append(envelopes, [value |-> v, secret |-> s, env |-> encrypt(v, s, rng)])
  /\ rng' = rng + DrawsPerEncrypt
  /\ UNCHANGED <<utilVars, lastDecrypt, codecVars, keyVars>>

\* decrypt keeps no state and changes none: its outcome is decided by its
\* arguments alone, so a behaviour follows one call, made at any point.
Decrypted(text, s) ==
  /\ ~lastDecrypt.called
  /\ lastDecrypt' =    [called |-> TRUE, text |-> text, secret |-> s, res |-> decrypt(text, s)]

\* a caller decrypts an envelope as encrypt returned it, under any secret
DecryptEnvelope ==
  /\ \E i \in 1..Len(envelopes), s \in Secrets :
       Decrypted(JSONstringify(envelopes[i].env), s)
  /\ UNCHANGED <<utilVars, rng, envelopes, codecVars, keyVars>>

\* a caller decrypts an envelope of which one property was overwritten
DecryptTampered ==
  /\ \E i \in 1..Len(envelopes), f \in FieldNames :
       \E v \in TamperValues(i, f) :
         Decrypted(JSONstringify(withField(envelopes[i].env, f, v)), envelopes[i].secret)
  /\ UNCHANGED <<utilVars, rng, envelopes, codecVars, keyVars>>

\* a caller decrypts an envelope assembled from the properties of two
DecryptSpliced ==
  /\ \E i, j \in 1..Len(envelopes) :
       /\ i # j
       /\ envelopes[i].secret = envelopes[j].secret
       /\ \E pick \in [FieldNames -> {i, j}] :
            Decrypted(JSONstringify(
                        [salt |-> envelopes[pick["salt:"]].env.salt,
                         iv |-> envelopes[pick["iv:"]].env.iv,
                         cipherText |-> envelopes[pick["cipherText:"]].env.cipherText,
                         mac |-> envelopes[pick["mac:"]].env.mac]),
                      envelopes[i].secret)
  /\ UNCHANGED <<utilVars, rng, envelopes, codecVars, keyVars>>

\* a caller decrypts the empty text or a text that is no envelope
DecryptMalformed ==
  /\ \E text \in MalformedTexts \cup {<<>>}, s \in Secrets : Decrypted(text, s)
  /\ UNCHANGED <<utilVars, rng, envelopes, codecVars, keyVars>>

Next ==
  \/ Encrypt
  \/ DecryptEnvelope
  \/ DecryptTampered
  \/ DecryptSpliced
  \/ DecryptMalformed

Spec == Init /\ [][Next]_vars

\* ------------------------------------------------------------ CryptoManager claims
\* the envelope of the i-th encrypt call as its caller stores it
Sent(i) == JSONstringify(envelopes[i].env)

Range(t) == {t[k] : k \in 1..Len(t)}

\* the last decrypt call was given text, under secret s
DecryptCalled(text, s) ==
  lastDecrypt.called /\ lastDecrypt.text = text /\ lastDecrypt.secret = s

\* the last decrypt call failed with error e and returned nothing
DecryptFailed(e) ==
  ~lastDecrypt.res.ok /\ lastDecrypt.res.error = e /\ lastDecrypt.res.value = <<>>

\* the text of the last decrypt call is an envelope with all four properties
\* that differs from the i-th envelope in property f and in no other
TamperedIn(i, f) ==
  LET p == JSONparse(lastDecrypt.text)
  IN /\ p.ok
     /\ p.has = FieldNames
     /\ p.val[f] # field(envelopes[i].env, f)
     /\ \A g \in FieldNames \ {f} : p.val[g] = field(envelopes[i].env, g)

\* the text of the last decrypt call is an envelope whose every property is
\* that of the i-th or of the j-th envelope, and it is neither of the two
SplicedFrom(i, j) ==
  LET p == JSONparse(lastDecrypt.text)
  IN /\ p.ok
     /\ p.has = FieldNames
     /\ \A f \in FieldNames :
          p.val[f] \in {field(envelopes[i].env, f), field(envelopes[j].env, f)}
     /\ lastDecrypt.text \notin {Sent(i), Sent(j)}

\* C1 as stated: decrypt of the serialized result of encrypt(v, s), under the
\* same s, returns exactly v, for every plaintext v.
C1_RoundTripEveryValue ==
  \A i \in 1..Len(envelopes) :
    DecryptCalled(Sent(i), envelopes[i].secret)
      => lastDecrypt.res.ok /\ lastDecrypt.res.value = envelopes[i].value

\* C1 amended: decrypt of the serialized result of encrypt(v, s), under the
\* same s, returns exactly v, for every non-empty plaintext v.
C1_RoundTripNonEmpty ==
  \A i \in 1..Len(envelopes) :
    (DecryptCalled(Sent(i), envelopes[i].secret) /\ envelopes[i].value # <<>>)
      => lastDecrypt.res.ok /\ lastDecrypt.res.value = envelopes[i].value

C1_Witness ==
  \E i \in 1..Len(envelopes) :
    /\ DecryptCalled(Sent(i), envelopes[i].secret)
    /\ envelopes[i].value # <<>>
    /\ lastDecrypt.res.ok

\* C2: an envelope of encrypt(v, s) in which one of salt, iv, cipherText, mac
\* was changed to a different value makes decrypt under s fail with the MAC
\* verification failure; no plaintext is returned.
C2_TamperDetected ==
  \A i \in 1..Len(envelopes), f \in FieldNames :
    (lastDecrypt.called /\ lastDecrypt.secret = envelopes[i].secret /\ TamperedIn(i, f))
      => DecryptFailed("MacVerificationFailed")

C2_Witness ==
  \E i \in 1..Len(envelopes) :
    /\ lastDecrypt.called
    /\ lastDecrypt.secret = envelopes[i].secret
    /\ TamperedIn(i, "cipherText:")
    /\ DecryptFailed("MacVerificationFailed")

\* C3: decrypt reaches the cipher only after the MAC recomputed over salt, iv
\* and cipherText under the derived key was compared equal to the envelope's
\* mac; on a mismatch it stops before the cipher and holds no plaintext.
C3_VerifyThenDecrypt ==
  lastDecrypt.called =>
    LET p == JSONparse(lastDecrypt.text)
        t == lastDecrypt.res.trace
        recomputed == generateMac(p.val["salt:"], p.val["iv:"], p.val["cipherText:"],
                                  deriveKey(lastDecrypt.secret, p.val["salt:"]))
    IN /\ "AES.decrypt" \in Range(t) =>
            /\ recomputed = p.val["mac:"]
            /\ IndexOf(t, "generateMac") > 0
            /\ IndexOf(t, "generateMac") < IndexOf(t, "AES.decrypt")
       /\ (p.ok /\ p.has = FieldNames /\ recomputed # p.val["mac:"]) =>
            /\ "AES.decrypt" \notin Range(t)
            /\ DecryptFailed("MacVerificationFailed")

C3_Witness ==
  /\ lastDecrypt.called
  /\ lastDecrypt.res.error = "MacVerificationFailed"
  /\ "generateMac" \in Range(lastDecrypt.res.trace)
  /\ "AES.decrypt" \notin Range(lastDecrypt.res.trace)

\* C4: decrypt of an envelope of encrypt(v, s) under a secret other than s
\* fails with the MAC verification failure and returns no plaintext.
C4_WrongKeyRejected ==
  \A i \in 1..Len(envelopes), s \in Secrets :
    (s # envelopes[i].secret /\ DecryptCalled(Sent(i), s))
      => DecryptFailed("MacVerificationFailed")

C4_Witness ==
  \E i \in 1..Len(envelopes) :
    /\ lastDecrypt.called
    /\ lastDecrypt.text = Sent(i)
    /\ lastDecrypt.secret # envelopes[i].secret
    /\ envelopes[i].value # <<>>
    /\ DecryptFailed("MacVerificationFailed")

\* C5: an envelope assembled from the properties of two envelopes made under
\* the same secret, and equal to neither, fails decrypt under that secret
\* with the MAC verification failure.
C5_SpliceRejected ==
  \A i, j \in 1..Len(envelopes) :
    (/\ i # j
     /\ envelopes[i].secret = envelopes[j].secret
     /\ lastDecrypt.called
     /\ lastDecrypt.secret = envelopes[i].secret
     /\ SplicedFrom(i, j))
      => DecryptFailed("MacVerificationFailed")

C5_Witness ==
  \E i, j \in 1..Len(envelopes) :
    /\ i # j
    /\ envelopes[i].secret = envelopes[j].secret
    /\ lastDecrypt.called
    /\ lastDecrypt.secret = envelopes[i].secret
    /\ SplicedFrom(i, j)
    /\ JSONparse(lastDecrypt.text).val["mac:"] = envelopes[i].env.mac
    /\ JSONparse(lastDecrypt.text).val["cipherText:"] = envelopes[j].env.cipherText
    /\ DecryptFailed("MacVerificationFailed")

\* C6: decrypt of the empty text fails with the empty-input error before any
\* parsing; decrypt of a non-empty text that does not parse, or that lacks
\* one of salt, iv, cipherText, mac, fails with the invalid-envelope-format
\* error before any key derivation, MAC check or decryption.
C6_MalformedRejected ==
  lastDecrypt.called =>
    LET p == JSONparse(lastDecrypt.text)
        t == lastDecrypt.res.trace
    IN /\ lastDecrypt.text = <<>> => DecryptFailed("EmptyInput") /\ t = <<>>
       /\ (lastDecrypt.text # <<>> /\ (~p.ok \/ ~(FieldNames \subseteq p.has))) =>
            /\ DecryptFailed("InvalidEnvelopeFormat")
            /\ Range(t) \cap {"deriveKey", "generateMac", "AES.decrypt"} = {}

C6_Witness ==
  /\ lastDecrypt.called
  /\ JSONparse(lastDecrypt.text).ok
  /\ JSONparse(lastDecrypt.text).has = FieldNames \ {"mac:"}
  /\ DecryptFailed("InvalidEnvelopeFormat")

\* C7: no two envelopes returned by encrypt share a salt or an iv, and two
\* envelopes of the same value under the same secret differ in cipherText.
C7_Freshness ==
  \A i, j \in 1..Len(envelopes) :
    i # j =>
      /\ envelopes[i].env.salt # envelopes[j].env.salt
      /\ envelopes[i].env.iv # envelopes[j].env.iv
      /\ (envelopes[i].value = envelopes[j].value /\ envelopes[i].secret = envelopes[j].secret)
           => envelopes[i].env.cipherText # envelopes[j].env.cipherText

C7_Witness ==
  /\ Len(envelopes) >= 2
  /\ envelopes[1].value = envelopes[2].value
  /\ envelopes[1].secret = envelopes[2].secret

\* C20: decrypt never returns the empty string; when the MAC verifies and
\* the decrypted value is empty, decrypt fails with the empty-plaintext error.
C20_NeverReturnsEmpty ==
  /\ (lastDecrypt.called /\ lastDecrypt.res.ok) => lastDecrypt.res.value # <<>>
  /\ \A i \in 1..Len(envelopes) :
       (DecryptCalled(Sent(i), envelopes[i].secret) /\ envelopes[i].value = <<>>)
         => DecryptFailed("EmptyPlaintext")

\* the envelope of the empty plaintext, decrypted under its secret: the MAC
\* verified, AES.decrypt ran and the call failed
C20_Witness ==
  \E i \in 1..Len(envelopes) :
    /\ DecryptCalled(Sent(i), envelopes[i].secret)
    /\ envelopes[i].value = <<>>
    /\ DecryptFailed("EmptyPlaintext")
    /\ lastDecrypt.res.trace[Len(lastDecrypt.res.trace)] = "AES.decrypt"

\* the errors decrypt throws
DecryptErrors ==
  {"EmptyInput", "InvalidEnvelopeFormat", "MacVerificationFailed",
   "DecryptionFailed", "EmptyPlaintext"}

\* C21: decrypt returns a value only when its input was not empty, the
\* envelope parsed with all four properties, the MAC verified and the
\* decrypted text is not empty; a call that fails returns nothing, ends with
\* an error for its caller and went through each of its steps once.
C21_NoPartialResultNoRetry ==
  lastDecrypt.called =>
    LET p == JSONparse(lastDecrypt.text)
        t == lastDecrypt.res.trace
        recomputed == generateMac(p.val["salt:"], p.val["iv:"], p.val["cipherText:"],
                                  deriveKey(lastDecrypt.secret, p.val["salt:"]))
    IN /\ lastDecrypt.res.ok =>
            /\ lastDecrypt.text # <<>>
            /\ p.ok
            /\ p.has = FieldNames
            /\ recomputed = p.val["mac:"]
            /\ lastDecrypt.res.value # <<>>
            /\ lastDecrypt.res.error = ""
       /\ ~lastDecrypt.res.ok =>
            /\ lastDecrypt.res.value = <<>>
            /\ lastDecrypt.res.error \in DecryptErrors
       /\ \A i, j \in 1..Len(t) : i # j => t[i] # t[j]

\* an envelope that lacks a property: the call stopped at the validation
C21_Witness ==
  /\ lastDecrypt.called
  /\ ~lastDecrypt.res.ok
  /\ lastDecrypt.res.error = "InvalidEnvelopeFormat"
  /\ lastDecrypt.res.trace = <<"JSON.parse", "validateParsedData">>
  /\ lastDecrypt.res.value = <<>>

\* ------------------------------------------------------------ EnvironmentManager runs
\* characters of a configuration file
FileTokens == {"a", EQ, SP, NL}

Files == SeqsUpTo(FileTokens, MaxFileLen)

\* path.resolve(envDirPath, env) for the environment under encryption
EnvFilePath == "envs/.env.uat"

\* An EnvironmentManager after initializeEncryption(env, secret), with the
\* environment file holding any content.
InitCodec ==
  /\ rng = 0
  /\ envelopes = <<>>
  /\ lastDecrypt = NoDecrypt
  /\ envFile \in Files
  /\ secretKey \in Secrets
  /\ runs = 0
  /\ lastEncrypt = NoEncrypt
  /\ envFilePath = EnvFilePath
  /\ lastInvocation = NoInvocation
  /\ successLog = <<>>
  /\ baseFile = <<>>
  /\ KeysIdle
  /\ UtilIdle

\* EnvironmentManager.encryptEnvVariables(): read the file, encrypt its
\* lines, write them back; when encryptLines throws the file is not written.
EncryptRun ==
  /\ LET envFileContent == readEnvFileAsLines(envFile)
         r == encryptLines(envFileContent, secretKey, rng)
     IN /\ lastEncrypt' = [called |-> TRUE, lines |-> envFileContent] @@ r
        /\ rng' = r.rng
        /\ envFile' = contentAfterRun(envFile, r, <<>>)
        /\ successLog' =
             IF r.threw THEN successLog
             ELSE Append(successLog, logEncryptionSuccess(Len(envFileContent), Len(r.out)))
  /\ runs' = runs + 1
  /\ UNCHANGED <<utilVars, envelopes, lastDecrypt, secretKey, envFilePath, lastInvocation, keyVars>>

EncryptEnvVariables ==
  /\ runs < MaxRuns
  /\ EncryptRun

NextCodec == EncryptEnvVariables

SpecCodec == InitCodec /\ [][NextCodec]_vars

\* ------------------------------------------------------------ runs over the same file
\* encryptEnvVariables called again on the file an earlier run wrote
EncryptEnvVariablesAgain ==
  /\ runs < MaxReruns
  /\ EncryptRun

NextRerun == EncryptEnvVariablesAgain

SpecRerun == InitCodec /\ [][NextRerun]_vars

\* ------------------------------------------------------------ runs that may fail
\* An EnvironmentManager after initializeEncryption(env, secret), before an
\* environment file of any content, with a disk and a cipher that may fail.
InitAtomic == InitCodec

NoLines ==
  [threw |-> TRUE, error |-> "ReadFailed", out |-> <<>>, errors |-> <<>>,
   calls |-> <<>>, partial |-> <<>>]

\* EnvironmentManager.encryptEnvVariables() where readEnvFileAsLines may
\* throw and any call of CryptoManager.encrypt may throw: every error is
\* logged and rethrown, writeEnvFileLines is reached only past encryptLines.
EncryptEnvVariablesOrFail ==
  /\ runs < MaxRuns
  /\ \E readFails \in BOOLEAN, failAt \in 0..Len(readEnvFileAsLines(envFile)) :
       LET envFileContent == IF readFails THEN <<>> ELSE readEnvFileAsLines(envFile)
           r == IF readFails THEN NoLines @@ [rng |-> rng]
                ELSE encryptLinesFailing(envFileContent, secretKey, rng, failAt)
       IN /\ readFails => failAt = 0
          /\ failAt <= Len(encryptLines(readEnvFileAsLines(envFile), secretKey, rng).calls)
          /\ lastEncrypt' =
               [called |-> TRUE, lines |-> envFileContent, threw |-> r.threw,
                error |-> r.error, out |-> r.out, errors |-> r.errors,
                calls |-> r.calls, rng |-> r.rng]
          /\ rng' = r.rng
          /\ envFile' = contentAfterRun(envFile, r, r.partial)
          /\ successLog' =
               IF r.threw THEN successLog
               ELSE Append(successLog, logEncryptionSuccess(Len(envFileContent), Len(r.out)))
  /\ runs' = runs + 1
  /\ UNCHANGED <<utilVars, envelopes, lastDecrypt, secretKey, envFilePath, lastInvocation, keyVars>>

NextAtomic == EncryptEnvVariablesOrFail

SpecAtomic == InitAtomic /\ [][NextAtomic]_vars

C23_ReportedCountIsEncrypted ==
  (lastEncrypt.called /\ ~lastEncrypt.threw) =>
    /\ successLog # <<>>
    /\ successLog[Len(successLog)] = Len(lastEncrypt.calls)

\* ------------------------------------------------------------ initialisation and runs
SetupFiles == SeqsUpTo({"a", EQ}, MaxSetupFileLen)

\* A new EnvironmentManager, envFilePath and secretKey empty strings, before
\* an env directory whose files hold any content.
InitSetup ==
  /\ rng = 0
  /\ envelopes = <<>>
  /\ lastDecrypt = NoDecrypt
  /\ envFile = <<>>
  /\ secretKey = ""
  /\ runs = 0
  /\ lastEncrypt = NoEncrypt
  /\ envFilePath = ""
  /\ lastInvocation = NoInvocation
  /\ successLog = <<>>
  /\ baseFile = <<>>
  /\ KeysIdle
  /\ MapIdle
  /\ DbIdle
  /\ SetupIdle
  /\ envFiles \in [EnvPaths -> SetupFiles]

\* getSecretKey(secretKey): throws when the secret is empty
getSecretKey(secret) ==
  IF secret = "" THEN [threw |-> TRUE, returned |-> ""]
  ELSE [threw |-> FALSE, returned |-> secret]

\* EnvironmentManager.initializeEncryption(env, secretKey): the path is
\* assigned first, the secret only when getSecretKey returned
InitializeEncryption ==
  /\ inits < MaxInits
  /\ \E env \in Envs, secret \in Secrets \cup {""} :
       LET validated == getSecretKey(secret)
       IN  /\ envFilePath' = resolve(EnvDirPath, env)
           /\ secretKey' = IF validated.threw THEN secretKey ELSE validated.returned
           /\ initPairs' = IF validated.threw THEN initPairs
                           ELSE initPairs \cup {<<resolve(EnvDirPath, env), secret>>}
  /\ inits' = inits + 1
  /\ UNCHANGED <<rng, envelopes, lastDecrypt, envFile, runs, lastEncrypt,
                 lastInvocation, successLog, keyVars, mapVars, dbVars,
                 envFiles, lastWrite>>

\* EnvironmentManager.encryptEnvVariables() on the file at this.envFilePath;
\* reading throws when there is no such file
EncryptFileAtPath ==
  /\ runs < MaxRuns
  /\ LET exists == envFilePath \in EnvPaths
         envFileContent == IF exists THEN readEnvFileAsLines(envFiles[envFilePath])
                           ELSE <<>>
         r == IF exists THEN encryptLines(envFileContent, secretKey, rng)
              ELSE [threw |-> TRUE, error |-> "ReadFailed", out |-> <<>>,
                    errors |-> <<>>, calls |-> <<>>, rng |-> rng]
     IN /\ lastEncrypt' = [called |-> TRUE, lines |-> envFileContent] @@ r
        /\ rng' = r.rng
        /\ envFiles' = IF r.threw THEN envFiles
                       ELSE [envFiles EXCEPT ![envFilePath] =
                               contentAfterRun(envFiles[envFilePath], r, <<>>)]
        /\ lastWrite' = IF r.threw THEN lastWrite
                        ELSE [done |-> TRUE, path |-> envFilePath, secret |-> secretKey]
        /\ successLog' =
             IF r.threw THEN successLog
             ELSE Append(successLog, logEncryptionSuccess(Len(envFileContent), Len(r.out)))
  /\ runs' = runs + 1
  /\ UNCHANGED <<envelopes, lastDecrypt, envFile, secretKey, envFilePath,
                 lastInvocation, keyVars, mapVars, dbVars, initPairs, inits>>

NextSetup == InitializeEncryption \/ EncryptFileAtPath

SpecSetup == InitSetup /\ [][NextSetup]_vars

\* C27 as stated: every file write of encryptEnvVariables uses a non-empty
\* secret, and the path and the secret it uses were set together by one
\* initializeEncryption call that returned.
C27_WritesUseInitializedPair ==
  lastWrite.done =>
    /\ lastWrite.secret # ""
    /\ <<lastWrite.path, lastWrite.secret>> \in initPairs

\* ------------------------------------------------------------ EncryptionManager runs
\* EncryptionManager.envManager as its constructor leaves it, before an
\* environment file of any content.
InitManager ==
  /\ rng = 0
  /\ envelopes = <<>>
  /\ lastDecrypt = NoDecrypt
  /\ envFile \in Files
  /\ secretKey = ""
  /\ runs = 0
  /\ lastEncrypt = NoEncrypt
  /\ envFilePath = ""
  /\ lastInvocation = NoInvocation
  /\ successLog = <<>>
  /\ baseFile = <<>>
  /\ KeysIdle
  /\ UtilIdle

\* EncryptionManager.encryptEnvironmentVariables(env, secret):
\* initializeEncryption sets envFilePath, then secretKey unless the secret is
\* empty (getSecretKey throws); encryptEnvVariables follows. The call ends by
\* returning or by rethrowing.
EncryptEnvironmentVariables ==
  /\ runs < MaxRuns
  /\ \E secret \in Secrets \cup {""} :
       /\ envFilePath' = EnvFilePath
       /\ IF secret = ""
          THEN /\ lastInvocation' = [called |-> TRUE, secretKey |-> secret, threw |-> TRUE]
               /\ UNCHANGED <<secretKey, envFile, rng, lastEncrypt, runs, successLog>>
          ELSE LET envFileContent == readEnvFileAsLines(envFile)
                   r == encryptLines(envFileContent, secret, rng)
               IN /\ secretKey' = secret
                  /\ lastEncrypt' = [called |-> TRUE, lines |-> envFileContent] @@ r
                  /\ rng' = r.rng
                  /\ envFile' = contentAfterRun(envFile, r, <<>>)
                  /\ successLog' =
                       IF r.threw THEN successLog
                       ELSE Append(successLog,
                                   logEncryptionSuccess(Len(envFileContent), Len(r.out)))
                  /\ runs' = runs + 1
                  /\ lastInvocation' =
                       [called |-> TRUE, secretKey |-> secret, threw |-> r.threw]
  /\ UNCHANGED <<utilVars, envelopes, lastDecrypt, keyVars>>

NextManager == EncryptEnvironmentVariables

SpecManager == InitManager /\ [][NextManager]_vars

\* C15 as stated: once encryptEnvironmentVariables has returned or thrown,
\* no state that outlives the call holds the master secret.
C15_SecretScopedToCall ==
  lastInvocation.called => secretKey \notin Secrets

\* ------------------------------------------------------------ encryptLines claims
beforeFirstEq(t) == SubSeq(t, 1, IndexOf(t, EQ) - 1)

afterFirstEq(t) == SubSeq(t, IndexOf(t, EQ) + 1, Len(t))

\* a non-blank line without "="
isMalformed(line) == ~isBlank(line) /\ IndexOf(line, EQ) = 0

\* the place in the output of the i-th input line, malformed lines having
\* been left out
OutIndex(lines, i) == i - Cardinality({j \in 1..(i - 1) : isMalformed(lines[j])})

\* the i-th input line of the last encryptLines call has exactly one output
\* line, which is o
EmittedAs(i, o) ==
  /\ ~lastEncrypt.threw
  /\ Len(lastEncrypt.out) =
       Len(lastEncrypt.lines)
         - Cardinality({j \in 1..Len(lastEncrypt.lines) : isMalformed(lastEncrypt.lines[j])})
  /\ OutIndex(lastEncrypt.lines, i) \in 1..Len(lastEncrypt.out)
  /\ lastEncrypt.out[OutIndex(lastEncrypt.lines, i)] = o

\* a line key=value with a key, whose value, everything after the first "=",
\* holds a character that is not whitespace
isValueLine(line) ==
  /\ IndexOf(line, EQ) > 0
  /\ trim(beforeFirstEq(line)) # <<>>
  /\ trim(afterFirstEq(line)) # <<>>

\* a line key= whose value, everything after the first "=", is empty
isEmptyValueLine(line) ==
  IndexOf(line, EQ) > 0 /\ trim(afterFirstEq(line)) = <<>>

\* C8 as stated: for every input line key=value with a non-empty value,
\* encryptLines emits exactly one line key=<envelope>, and decrypt of that
\* envelope under the same secret returns value.trim() in full.
C8_ValueLinesEncryptedInFull ==
  lastEncrypt.called =>
    \A i \in 1..Len(lastEncrypt.lines) :
      isValueLine(lastEncrypt.lines[i]) =>
        \E o \in Range(lastEncrypt.out) :
          /\ EmittedAs(i, o)
          /\ IndexOf(o, EQ) > 0
          /\ beforeFirstEq(o) = beforeFirstEq(trim(lastEncrypt.lines[i]))
          /\ decrypt(afterFirstEq(o), secretKey).ok
          /\ decrypt(afterFirstEq(o), secretKey).value
               = trim(afterFirstEq(lastEncrypt.lines[i]))

\* C9 as stated: every input line that is empty or holds only whitespace is
\* emitted by encryptLines unchanged, character for character.
C9_BlankLinesUnchanged ==
  (lastEncrypt.called /\ ~lastEncrypt.threw) =>
    \A i \in 1..Len(lastEncrypt.lines) :
      isBlank(lastEncrypt.lines[i]) => EmittedAs(i, lastEncrypt.lines[i])

\* C10: every input line key= with an empty value is emitted by encryptLines
\* unchanged, and encrypt is not called for it.
C10_EmptyValuesUnchanged ==
  lastEncrypt.called =>
    \A i \in 1..Len(lastEncrypt.lines) :
      isEmptyValueLine(lastEncrypt.lines[i]) =>
        /\ EmittedAs(i, lastEncrypt.lines[i])
        /\ \A c \in Range(lastEncrypt.calls) : c.index + 1 # i

C10_Witness ==
  /\ lastEncrypt.called
  /\ lastEncrypt.calls # <<>>
  /\ \E i \in 1..Len(lastEncrypt.lines) :
       /\ isEmptyValueLine(lastEncrypt.lines[i])
       /\ beforeFirstEq(lastEncrypt.lines[i]) = <<"a">>
       /\ EmittedAs(i, lastEncrypt.lines[i])

\* C25 as stated: after encryptLines returned normally every output line is
\* blank, or a key with an empty value, or key=<serialized envelope> with an
\* envelope encrypt returned in this call; no output line carries plaintext.
C25_NoPlaintextLeftBehind ==
  (lastEncrypt.called /\ ~lastEncrypt.threw) =>
    \A i \in 1..Len(lastEncrypt.out) :
      LET o == lastEncrypt.out[i]
      IN  \/ isBlank(o)
          \/ isEmptyValueLine(o)
          \/ /\ IndexOf(o, EQ) > 0
             /\ \E c \in Range(lastEncrypt.calls) :
                  afterFirstEq(o) = JSONstringify(c.env)

\* text cut at its first "=", whole when it holds none
cutAtEq(t) == IF IndexOf(t, EQ) = 0 THEN t ELSE SubSeq(t, 1, IndexOf(t, EQ) - 1)

\* line i read by the last run is key=<envelope> as an earlier run stored it
holdsEnvelope(i) ==
  /\ IndexOf(lastEncrypt.lines[i], EQ) > 0
  /\ decrypt(afterFirstEq(lastEncrypt.lines[i]), secretKey).ok

\* C28: a run over a file that an earlier run encrypted does not recognise
\* the envelopes. For every line key=<envelope> it encrypts again the text
\* after the first "=" cut at the next "=", so the line and the file differ
\* from what the earlier run left, and a single decrypt of the value now
\* stored returns that cut text, not the original plaintext.
C28_ReencryptionNotDetected ==
  (lastEncrypt.called /\ ~lastEncrypt.threw) =>
    \A i \in 1..Len(lastEncrypt.lines) :
      holdsEnvelope(i) =>
        LET line     == lastEncrypt.lines[i]
            stored   == afterFirstEq(line)
            original == decrypt(stored, secretKey).value
            o        == lastEncrypt.out[OutIndex(lastEncrypt.lines, i)]
            again    == decrypt(afterFirstEq(o), secretKey)
        IN  /\ \E c \in Range(lastEncrypt.calls) :
                 /\ c.index + 1 = i
                 /\ c.value = trim(cutAtEq(stored))
                 /\ afterFirstEq(o) = JSONstringify(c.env)
            /\ o # line
            /\ envFile # join(lastEncrypt.lines, NL)
            /\ again.ok
            /\ again.value = trim(cutAtEq(stored))
            /\ again.value # original

\* the second run encrypted the beginning of the envelope of the value "a"
C28_Witness ==
  /\ runs = 2
  /\ ~lastEncrypt.threw
  /\ \E i \in 1..Len(lastEncrypt.lines) :
       /\ holdsEnvelope(i)
       /\ decrypt(afterFirstEq(lastEncrypt.lines[i]), secretKey).value = <<"a">>
       /\ decrypt(afterFirstEq(lastEncrypt.out[OutIndex(lastEncrypt.lines, i)]),
                  secretKey).value = <<"{", "salt:", RandomToken(0)>>

\* the errors encryptLines must have recorded for lines: one for each malformed
\* line, in the order of the lines, naming the line's position counted from 1
RECURSIVE ExpectedErrors(_, _)
ExpectedErrors(lines, i) ==
  IF i > Len(lines) THEN <<>>
  ELSE (IF isMalformed(lines[i]) THEN <<[lineNumber |-> i, line |-> lines[i]]>> ELSE <<>>)
         \o ExpectedErrors(lines, i + 1)

SomeLineNotBlank(lines) == \E i \in 1..Len(lines) : ~isBlank(lines[i])

StandsFor(o, line) ==
  IF isBlank(line) THEN isBlank(o)
  ELSE /\ IndexOf(o, EQ) > 0
       /\ trim(beforeFirstEq(o)) = trim(beforeFirstEq(line))
       /\ (trim(afterFirstEq(o)) = <<>>) = (trim(afterFirstEq(line)) = <<>>)

FileLines == split(envFile, NL)

\* C13 as stated: the file holds as many lines after encryptEnvVariables as
\* it held before, in the same order; no line is dropped from the file.
C13_FileLineCountPreserved ==
  (lastEncrypt.called /\ ~lastEncrypt.threw) =>
    /\ Len(FileLines) = Len(lastEncrypt.lines)
    /\ \A i \in 1..Len(lastEncrypt.lines) :
         i <= Len(FileLines) /\ StandsFor(FileLines[i], lastEncrypt.lines[i])

\* C13 amended: the lines encryptEnvVariables writes to the file are the lines
\* the file held before, in their order, less the malformed lines, each of
\* which is reported; no other line is dropped, and a file on which
\* encryptLines fails is left as it was.
C13_FileLinesLessMalformed ==
  lastEncrypt.called =>
    LET kept == SelectSeq(lastEncrypt.lines, LAMBDA l : ~isMalformed(l))
    IN IF lastEncrypt.threw THEN FileLines = lastEncrypt.lines
       ELSE /\ Len(lastEncrypt.errors) = Len(lastEncrypt.lines) - Len(kept)
            /\ IF kept = <<>> THEN envFile = <<>>
               ELSE /\ Len(FileLines) = Len(kept)
                    /\ \A k \in 1..Len(kept) : StandsFor(FileLines[k], kept[k])

\* a file of three lines of which the malformed one is gone after the run
C13_Witness ==
  /\ lastEncrypt.called
  /\ ~lastEncrypt.threw
  /\ Len(lastEncrypt.lines) = 3
  /\ Len(lastEncrypt.errors) = 1
  /\ Len(FileLines) = 2
  /\ lastEncrypt.calls # <<>>

\* C14: when every input line is blank or holds only whitespace, encryptLines
\* fails with the empty-file error, returns no line and calls encrypt for none.
C14_AllBlankIsEmptyFile ==
  (lastEncrypt.called /\ ~SomeLineNotBlank(lastEncrypt.lines)) =>
    /\ lastEncrypt.threw
    /\ lastEncrypt.error = "EmptyFile"
    /\ lastEncrypt.out = <<>>
    /\ lastEncrypt.calls = <<>>

\* an empty line and a line of whitespace
C14_Witness ==
  /\ lastEncrypt.called
  /\ lastEncrypt.threw
  /\ lastEncrypt.error = "EmptyFile"
  /\ Len(lastEncrypt.lines) >= 2
  /\ \E i, j \in 1..Len(lastEncrypt.lines) :
       lastEncrypt.lines[i] = <<>> /\ lastEncrypt.lines[j] = <<SP>>

\* ------------------------------------------------------------ base env file runs
\* what a base env file is made of
BaseTokens == KeyNames \cup {EQ, NL, "a"}

BaseFiles == SeqsUpTo(BaseTokens, MaxBaseLen)

\* values stored under a key name
StoreValues == {<<>>, <<"a">>, <<"b">>, <<"b", EQ>>}

\* An EnvironmentManager over a base env file of any content.
InitStore ==
  /\ rng = 0
  /\ envelopes = <<>>
  /\ lastDecrypt = NoDecrypt
  /\ envFile = <<>>
  /\ secretKey = ""
  /\ runs = 0
  /\ lastEncrypt = NoEncrypt
  /\ envFilePath = ""
  /\ lastInvocation = NoInvocation
  /\ successLog = <<>>
  /\ baseFile \in BaseFiles
  /\ KeysIdle
  /\ UtilIdle

\* EnvironmentManager.storeKeyInEnv(keyName, keyValue): read the base env
\* file, update or append the pair, write the file
StoreKeyInEnv ==
  /\ stores < MaxStores
  /\ \E keyName \in KeyNames, keyValue \in StoreValues :
       /\ baseFile' = storeKeyInEnv(baseFile, <<keyName>>, keyValue)
       /\ lastStore' = [called |-> TRUE, keyName |-> keyName, keyValue |-> keyValue,
                        before |-> baseFile]
  /\ stores' = stores + 1
  /\ UNCHANGED <<utilVars, rng, envelopes, lastDecrypt, codecVars,
                 generates, issued, lastGenerate, lastKey, callers>>

NextStore == StoreKeyInEnv

SpecStore == InitStore /\ [][NextStore]_vars

\* ------------------------------------------------------------ key generation runs
\* key lengths asked of generateKey, in bits
KeyLengths == {128, 192, 256}

\* what the random source may deliver
KeySeeds == {1, 2}

\* An EncryptionManager over the base env file as ensureEnvFileExists
\* creates it: empty.
InitKeys ==
  /\ rng = 0
  /\ envelopes = <<>>
  /\ lastDecrypt = NoDecrypt
  /\ envFile = <<>>
  /\ secretKey = ""
  /\ runs = 0
  /\ lastEncrypt = NoEncrypt
  /\ envFilePath = ""
  /\ lastInvocation = NoInvocation
  /\ successLog = <<>>
  /\ baseFile = <<>>
  /\ KeysIdle
  /\ UtilIdle

\* EncryptionManager.generateAndStoreKey(keyName)
GenerateAndStoreKey ==
  /\ generates < MaxGenerates
  /\ \E keyName \in KeyNames, outcome \in {"key", "undefined", "throws"}, seed \in KeySeeds :
       LET r == generateAndStoreKey(baseFile, keyName, outcome, seed)
       IN /\ lastGenerate' = [called |-> TRUE, keyName |-> keyName,
                              threw |-> r.threw, returned |-> r.returned]
          /\ baseFile' = r.file
          /\ stores' = IF r.stored THEN stores + 1 ELSE stores
          /\ lastStore' = IF r.stored
                          THEN [called |-> TRUE, keyName |-> keyName,
                                keyValue |-> templateText(r.returned), before |-> baseFile]
                          ELSE lastStore
          /\ issued' = IF r.threw THEN issued ELSE [issued EXCEPT ![keyName] = r.returned]
  /\ generates' = generates + 1
  /\ UNCHANGED <<utilVars, rng, envelopes, lastDecrypt, codecVars, lastKey, callers>>

\* CryptoUtil.generateKey(lengthBits), called by anyone; the call keeps no
\* state, so a behaviour follows one call
GenerateKey ==
  /\ ~lastKey.called
  /\ \E lengthBits \in KeyLengths, seed \in KeySeeds :
       lastKey' = [called |-> TRUE, lengthBits |-> lengthBits,
                   key |-> generateKey(lengthBits, seed)]
  /\ UNCHANGED <<utilVars, rng, envelopes, lastDecrypt, codecVars,
                 baseFile, stores, generates, lastStore, issued, lastGenerate, callers>>

NextKeys == GenerateAndStoreKey \/ GenerateKey

SpecKeys == InitKeys /\ [][NextKeys]_vars

\* ------------------------------------------------------------ concurrent callers
\* values the racing callers store
RaceValues == {<<"a">>, <<"b">>}

\* contents of the environment file the racing callers encrypt
RaceFiles == SeqsUpTo(FileTokens, MaxRaceFileLen)

\* Two processes, each with an EnvironmentManager of its own, before the
\* same empty base env file and the same environment file.
InitRace ==
  /\ rng = 0
  /\ envelopes = <<>>
  /\ lastDecrypt = NoDecrypt
  /\ envFile \in RaceFiles
  /\ secretKey = ""
  /\ runs = 0
  /\ lastEncrypt = NoEncrypt
  /\ envFilePath = ""
  /\ lastInvocation = NoInvocation
  /\ successLog = <<>>
  /\ baseFile = <<>>
  /\ KeysIdle
  /\ UtilIdle

Written == {d \in CallerIds : callers[d].pc = "done"}

\* the content a caller modifies and writes: the one it read; the file as it
\* is at the time of the write is not looked at
\* (variant: the file is read again right before the write)
contentReadAgain(envConfig, current) == current

contentToWrite(envConfig, current) == envConfig

\* storeKeyInEnv, first half: let envConfig = this.readBaseEnvFile()
StoreRead(c) ==
  /\ callers[c].pc = "idle"
  /\ \E keyName \in KeyNames, keyValue \in RaceValues :
       callers' = [callers EXCEPT ![c] =
                     [Idle EXCEPT !.pc = "read", !.op = "store", !.keyName = keyName,
                                  !.keyValue = keyValue, !.envConfig = baseFile,
                                  !.seen = Written]]
  /\ UNCHANGED <<utilVars, rng, envelopes, lastDecrypt, codecVars,
                 baseFile, stores, generates, lastStore, issued, lastGenerate, lastKey>>

\* storeKeyInEnv, second half: update or append, writeKeyToEnvFile(envConfig)
StoreWrite(c) ==
  /\ callers[c].pc = "read"
  /\ callers[c].op = "store"
  /\ LET content == storeKeyInEnv(contentToWrite(callers[c].envConfig, baseFile),
                                  <<callers[c].keyName>>, callers[c].keyValue)
     IN /\ baseFile' = content
        /\ callers' = [callers EXCEPT ![c].pc = "done", ![c].wrote = content,
                                      ![c].order = Cardinality(Written) + 1]
  /\ UNCHANGED <<utilVars, rng, envelopes, lastDecrypt, codecVars,
                 stores, generates, lastStore, issued, lastGenerate, lastKey>>

\* encryptEnvVariables, first half: readEnvFileAsLines()
EncryptRead(c) ==
  /\ callers[c].pc = "idle"
  /\ \E secret \in Secrets :
       callers' = [callers EXCEPT ![c] =
                     [Idle EXCEPT !.pc = "read", !.op = "encrypt", !.secret = secret,
                                  !.envConfig = envFile, !.seen = Written]]
  /\ UNCHANGED <<utilVars, rng, envelopes, lastDecrypt, codecVars,
                 baseFile, stores, generates, lastStore, issued, lastGenerate, lastKey>>

\* encryptEnvVariables, second half: encryptLines, writeEnvFileLines; the
\* file is not written when encryptLines throws
EncryptWrite(c) ==
  /\ callers[c].pc = "read"
  /\ callers[c].op = "encrypt"
  /\ LET r == encryptLines(readEnvFileAsLines(contentToWrite(callers[c].envConfig, envFile)),
                           callers[c].secret, rng)
         content == contentAfterRun(envFile, r, <<>>)
     IN /\ envFile' = content
        /\ successLog' =
             IF r.threw THEN successLog
             ELSE Append(successLog, logEncryptionSuccess(Len(readEnvFileAsLines(callers[c].envConfig)),
                                                  Len(r.out)))
        /\ rng' = r.rng
        /\ callers' = [callers EXCEPT ![c].pc = "done", ![c].wrote = content,
                                      ![c].threw = r.threw,
                                      ![c].order = Cardinality(Written) + 1]
  /\ UNCHANGED <<utilVars, envelopes, lastDecrypt, secretKey, runs, lastEncrypt, envFilePath,
                 lastInvocation,
                 baseFile, stores, generates, lastStore, issued, lastGenerate, lastKey>>

NextRace ==
  \E c \in CallerIds : StoreRead(c) \/ StoreWrite(c) \/ EncryptRead(c) \/ EncryptWrite(c)

SpecRace == InitRace /\ [][NextRace]_vars

\* ------------------------------------------------------------ base env file claims
\* the line of t that the first match of ^keyName= lies in, 0 when none
LineOf(t, keyName) ==
  LET p == matchStart(t, <<keyName>>)
  IN IF p = 0 THEN 0 ELSE Len(split(SubSeq(t, 1, p), NL))

\* C17 as stated: after storeKeyInEnv(k, v) on a base env file of any
\* content, getKeyValue(k) returns v; a line that existed for k has its value
\* updated and the other lines are as before, otherwise k=v is appended as a
\* line of its own after the lines the file held.
C17_StoreThenRead ==
  lastStore.called =>
    LET k == lastStore.keyName
        v == lastStore.keyValue
        old == split(lastStore.before, NL)
        new == split(baseFile, NL)
        at == LineOf(lastStore.before, k)
    IN /\ getKeyValue(baseFile, <<k>>) = Defined(v)
       /\ IF at # 0
          THEN /\ Len(new) = Len(old)
               /\ new[at] = <<k, EQ>> \o v
               /\ \A i \in 1..Len(old) : i # at => new[i] = old[i]
          ELSE \E i \in 1..Len(new) :
                 /\ new[i] = <<k, EQ>> \o v
                 /\ \A j \in 1..Len(old) : old[j] # <<>> => j < i /\ new[j] = old[j]

\* C26 as stated: storeKeyInEnv(k, v) on a base env file of any content
\* leaves what getKeyValue returns for every other key name as it was, and
\* the file has as many lines as before or one more.
C26_StoreKeyFrame ==
  lastStore.called =>
    /\ \A other \in KeyNames \ {lastStore.keyName} :
         getKeyValue(baseFile, <<other>>) = getKeyValue(lastStore.before, <<other>>)
    /\ Len(split(baseFile, NL)) - Len(split(lastStore.before, NL)) \in {0, 1}

\* the lines of the base env file that begin with keyName=
LinesFor(keyName) ==
  LET lines == split(baseFile, NL)
  IN {i \in 1..Len(lines) : occursAt(lines[i], 1, <<keyName, EQ>>)}

C19_KeyLength ==
  /\ lastKey.called =>
       /\ Len(fromBase64(lastKey.key)) * 8 = lastKey.lengthBits
       /\ toBase64(fromBase64(lastKey.key)) = lastKey.key
       /\ Len(lastKey.key) = 4 * ((lastKey.lengthBits \div 8 + 2) \div 3)
       /\ lastKey.lengthBits = 256 => Len(fromBase64(lastKey.key)) = 32
       /\ lastKey.lengthBits = 128 => Len(fromBase64(lastKey.key)) = 16
  /\ (lastGenerate.called /\ ~lastGenerate.threw) =>
       Len(fromBase64(lastGenerate.returned.value)) = 32

\* a key of 128 bits was generated, and generateSecretKey gave one of 256
C19_Witness ==
  /\ lastKey.called
  /\ lastKey.lengthBits = 128
  /\ Len(lastKey.key) = 24
  /\ lastGenerate.called
  /\ ~lastGenerate.threw
  /\ Len(lastGenerate.returned.value) = 44

\* ------------------------------------------------------------ concurrency claims
\* both callers ran the cycle op to its end; f wrote first, l last
BothDone(op, f, l) ==
  /\ f # l
  /\ callers[f].pc = "done" /\ callers[l].pc = "done"
  /\ callers[f].op = op /\ callers[l].op = op
  /\ callers[f].order = 1 /\ callers[l].order = 2

\* both read before either wrote
Raced(f, l) == callers[f].seen = {} /\ callers[l].seen = {}

\* the last writer read after the first had written
Serialized(f, l) == callers[f].seen = {} /\ callers[l].seen = {f}

\* the lines of text that carry an envelope
EnvelopeLines(text) ==
  {line \in Range(split(text, NL)) : IndexOf(line, "{") > 0}

\* C16: no lock is taken and no version checked, so when two callers run a
\* read-modify-write cycle on the same file and both read before either
\* writes, the file at the end is what the last writer made of the content
\* it read and lacks the first writer's update (the key it stored, the
\* envelopes it wrote); when the last writer read after the first had
\* written, both updates are in the file.
C16_LostUpdateWhenRaced ==
  \A f, l \in CallerIds :
    /\ (BothDone("store", f, l) /\ callers[f].keyName # callers[l].keyName) =>
         /\ getKeyValue(baseFile, <<callers[l].keyName>>) = Defined(callers[l].keyValue)
         /\ Raced(f, l) => getKeyValue(baseFile, <<callers[f].keyName>>) = Undefined
         /\ Serialized(f, l) =>
              getKeyValue(baseFile, <<callers[f].keyName>>) = Defined(callers[f].keyValue)
    /\ (BothDone("encrypt", f, l) /\ ~callers[f].threw /\ ~callers[l].threw) =>
         /\ envFile = callers[l].wrote
         /\ Raced(f, l) =>
              /\ callers[l].envConfig = callers[f].envConfig
              /\ EnvelopeLines(callers[f].wrote) \cap EnvelopeLines(envFile) = {}
         /\ Serialized(f, l) =>
              /\ callers[l].envConfig = callers[f].wrote
              /\ Len(split(envFile, NL)) = Len(split(callers[f].wrote, NL))
              /\ \A i \in 1..Len(split(envFile, NL)) :
                   StandsFor(split(envFile, NL)[i], split(callers[f].wrote, NL)[i])

\* two callers stored keys under different names, both having read the
\* empty file: the key the first wrote is gone from the file
C16_Witness ==
  \E f, l \in CallerIds :
    /\ BothDone("store", f, l)
    /\ Raced(f, l)
    /\ callers[f].keyName # callers[l].keyName
    /\ getKeyValue(callers[f].wrote, <<callers[f].keyName>>) = Defined(callers[f].keyValue)
    /\ getKeyValue(baseFile, <<callers[f].keyName>>) = Undefined

-----------------------------------------------------------------------------
\* MapDataUtil: a Map from test id to an object of string | number values

\* the values handed to setData
JsValues == {JsString(<<>>), JsString(<<"a">>)} \cup {JsNumber(n) : n \in 0..MaxNumber}

\* !x of JavaScript on a string, a number or undefined
Falsy(x) ==
  \/ x.type = "undefined"
  \/ x.type = "string" /\ x.str = <<>>
  \/ x.type = "number" /\ x.num = 0

\* map.get(testId): the object stored for the test id, if any
mapGet(map, testId) ==
  IF testId \in map.has THEN Defined(map.obj[testId]) ELSE Undefined

setData(map, testId, key, value) ==
  IF testId = "" \/ key = ""
    THEN [threw |-> TRUE, map |-> map]
    ELSE LET got       == mapGet(map, testId)
             dataForId == IF got.defined THEN got.value ELSE EmptyObject
             stored    == [dataForId EXCEPT ![key] = value]
         IN  [threw |-> FALSE,
              map   |-> [has |-> map.has \cup {testId},
                         obj |-> [map.obj EXCEPT ![testId] = stored]]]

getData(map, testId, key) ==
  IF testId = "" \/ key = ""
    THEN [threw |-> TRUE, returned |-> JsUndefined]
    ELSE LET dataForId == mapGet(map, testId)
         IN  IF ~dataForId.defined \/ Falsy(dataForId.value[key])
               THEN [threw |-> TRUE, returned |-> JsUndefined]
               ELSE [threw |-> FALSE, returned |-> dataForId.value[key]]

\* map.delete(testId)
removeTestIdFromMap(map, testId) ==
  [has |-> map.has \ {testId}, obj |-> [map.obj EXCEPT ![testId] = EmptyObject]]

InitMap ==
  /\ rng = 0
  /\ envelopes = <<>>
  /\ lastDecrypt = NoDecrypt
  /\ envFile = <<>>
  /\ secretKey = ""
  /\ runs = 0
  /\ lastEncrypt = NoEncrypt
  /\ envFilePath = ""
  /\ lastInvocation = NoInvocation
  /\ successLog = <<>>
  /\ baseFile = <<>>
  /\ KeysIdle
  /\ UtilIdle

otherVars == <<rng, envelopes, lastDecrypt, codecVars, keyVars>>

SetData ==
  \E testId \in TestIds, key \in DataKeys, value \in JsValues :
    LET r == setData(dataMap, testId, key, value)
    IN  /\ dataMap' = r.map
        /\ lastData' = [called |-> TRUE, op |-> "setData", testId |-> testId,
                        key |-> key, value |-> value, threw |-> r.threw,
                        returned |-> JsUndefined]
        /\ UNCHANGED <<otherVars, dbVars, initVars>>

GetData ==
  \E testId \in TestIds, key \in DataKeys :
    LET r == getData(dataMap, testId, key)
    IN  /\ lastData' = [called |-> TRUE, op |-> "getData", testId |-> testId,
                        key |-> key, value |-> JsUndefined, threw |-> r.threw,
                        returned |-> r.returned]
        /\ UNCHANGED <<dataMap, otherVars, dbVars, initVars>>

RemoveTestId ==
  \E testId \in TestIds :
    /\ dataMap' = removeTestIdFromMap(dataMap, testId)
    /\ lastData' = [NoData EXCEPT !.called = TRUE, !.op = "removeTestIdFromMap",
                                  !.testId = testId]
    /\ UNCHANGED <<otherVars, dbVars, initVars>>

NextMap == SetData \/ GetData \/ RemoveTestId

SpecMap == InitMap /\ [][NextMap]_vars

\* the key is set for the test id: the object stored for it has the property
IsSet(testId, key) ==
  /\ testId \in dataMap.has
  /\ dataMap.obj[testId][key].type # "undefined"

\* C24: what setData stored under a test id and key is what getData returns
\* for them, and getData throws only when the key is not set for the test id.
C24_MapRoundTrip ==
  /\ (lastData.op = "setData" /\ ~lastData.threw) =>
        /\ IsSet(lastData.testId, lastData.key)
        /\ dataMap.obj[lastData.testId][lastData.key] = lastData.value
  /\ lastData.op = "getData" =>
        /\ IsSet(lastData.testId, lastData.key) =>
              /\ ~lastData.threw
              /\ lastData.returned = dataMap.obj[lastData.testId][lastData.key]
        /\ lastData.threw => ~IsSet(lastData.testId, lastData.key)

\* getData threw although the key holds the number 0 that setData stored
C24_ThrowsOnStoredZero ==
  /\ lastData.op = "getData"
  /\ lastData.threw
  /\ IsSet(lastData.testId, lastData.key)
  /\ dataMap.obj[lastData.testId][lastData.key] = JsNumber(0)

\* ------------------------------------------------------------ DatabaseConnection
\* The calls are async functions on one event loop: a task runs without
\* interruption up to its next await, and any other task may run before it
\* goes on. pool 0 stands for null; the pools established are numbered from 1.
InitPool ==
  /\ rng = 0
  /\ envelopes = <<>>
  /\ lastDecrypt = NoDecrypt
  /\ envFile = <<>>
  /\ secretKey = ""
  /\ runs = 0
  /\ lastEncrypt = NoEncrypt
  /\ envFilePath = ""
  /\ lastInvocation = NoInvocation
  /\ successLog = <<>>
  /\ baseFile = <<>>
  /\ KeysIdle
  /\ UtilIdle

restVars == <<otherVars, mapVars, initVars>>

\* what getConnectionPool returns to its caller: the pool and the state the
\* pool is in at that moment
HandOut(t, p) == Append(handedOut, [task |-> t, pool |-> p, state |-> poolState[p]])

\* getConnectionPool() up to its first await: if (!this.pool) it calls
\* establishDatabaseConnection, which awaits getAccessToken; otherwise it
\* returns this.pool
GetConnectionPool(t) ==
  /\ tasks[t].pc = "idle"
  /\ IF pool = 0
     THEN /\ tasks' = [tasks EXCEPT ![t] = [op |-> "getConnectionPool", pc |-> "getAccessToken", value |-> 0]]
          /\ UNCHANGED handedOut
     ELSE /\ tasks' = [tasks EXCEPT ![t] = [op |-> "getConnectionPool", pc |-> "returned", value |-> pool]]
          /\ handedOut' = HandOut(t, pool)
  /\ UNCHANGED <<pool, globalPool, poolState, restVars>>

\* establishDatabaseConnection() after await this.getAccessToken(): the token
\* came and sql.connect(config) is called and awaited, or getAccessToken threw
AccessTokenSettled(t) ==
  /\ tasks[t].pc = "getAccessToken"
  /\ \E rejected \in BOOLEAN :
       tasks' = [tasks EXCEPT ![t].pc = IF rejected THEN "threw" ELSE "sql.connect"]
  /\ UNCHANGED <<pool, globalPool, poolState, handedOut, restVars>>

\* establishDatabaseConnection() after await sql.connect(config): the module
\* hands back a pool it has just established or the open pool it holds
\* already, or it threw; this.pool = <that pool>; return this.pool
ConnectSettled(t) ==
  /\ tasks[t].pc = "sql.connect"
  /\ \E outcome \in {"established", "held", "rejected"} :
       CASE outcome = "established" ->
              LET p == Len(poolState) + 1
              IN  /\ poolState' = Append(poolState, "open")
                  /\ globalPool' = p
                  /\ pool' = p
                  /\ tasks' = [tasks EXCEPT ![t].pc = "established", ![t].value = p]
         [] outcome = "held" ->
              /\ globalPool # 0
              /\ pool' = globalPool
              /\ tasks' = [tasks EXCEPT ![t].pc = "established", ![t].value = globalPool]
              /\ UNCHANGED <<poolState, globalPool>>
         [] outcome = "rejected" ->
              /\ tasks' = [tasks EXCEPT ![t].pc = "threw"]
              /\ UNCHANGED <<pool, poolState, globalPool>>
  /\ UNCHANGED <<handedOut, restVars>>

\* getConnectionPool() after await this.establishDatabaseConnection():
\* this.pool = <the pool establishDatabaseConnection returned>; return this.pool
PoolAssigned(t) ==
  /\ tasks[t].pc = "established"
  /\ pool' = tasks[t].value
  /\ tasks' = [tasks EXCEPT ![t].pc = "returned"]
  /\ handedOut' = HandOut(t, tasks[t].value)
  /\ UNCHANGED <<globalPool, poolState, restVars>>

\* closeConnectionPool() up to its await: if (this.pool) it calls
\* this.pool.close(), otherwise it logs a warning and returns
CloseConnectionPool(t) ==
  /\ tasks[t].pc = "idle"
  /\ IF pool # 0
     THEN /\ tasks' = [tasks EXCEPT ![t] = [op |-> "closeConnectionPool", pc |-> "pool.close", value |-> pool]]
          /\ poolState' = [poolState EXCEPT ![pool] = IF @ = "open" THEN "closing" ELSE @]
          /\ globalPool' = IF globalPool = pool THEN 0 ELSE globalPool
     ELSE /\ tasks' = [tasks EXCEPT ![t] = [op |-> "closeConnectionPool", pc |-> "returned", value |-> 0]]
          /\ UNCHANGED <<poolState, globalPool>>
  /\ UNCHANGED <<pool, handedOut, restVars>>

\* closeConnectionPool() after await this.pool.close(): this.pool = null, or
\* close threw and the error is thrown on
CloseSettled(t) ==
  /\ tasks[t].pc = "pool.close"
  /\ \E rejected \in BOOLEAN :
       IF rejected
       THEN /\ tasks' = [tasks EXCEPT ![t].pc = "threw"]
            /\ UNCHANGED <<pool, poolState>>
       ELSE /\ tasks' = [tasks EXCEPT ![t].pc = "returned"]
            /\ poolState' = [poolState EXCEPT ![tasks[t].value] = "closed"]
            /\ pool' = 0
  /\ UNCHANGED <<globalPool, handedOut, restVars>>

NextPool ==
  \E t \in TaskIds :
    \/ GetConnectionPool(t)
    \/ AccessTokenSettled(t)
    \/ ConnectSettled(t)
    \/ PoolAssigned(t)
    \/ CloseConnectionPool(t)
    \/ CloseSettled(t)

SpecPool == InitPool /\ [][NextPool]_vars

C30_NoClosedPoolHandedOut ==
  /\ \A i \in 1..Len(handedOut) : handedOut[i].state = "open"
  /\ \A t \in TaskIds :
       (tasks[t].op = "closeConnectionPool" /\ tasks[t].pc = "returned" /\ tasks[t].value # 0)
         => pool # tasks[t].value

====
